---- MODULE Spec2Model ----
(***************************************************************************)
(* A model of FanControl_GUI.py: the serial Command Channel, the telemetry *)
(* ingest thread with its ten bounded channel buffers, macro recording and *)
(* the map_range helper.  Text (commands, received lines, history entries) *)
(* is modelled as sequences of one-character strings so that formatting,   *)
(* parsing and normalisation are computed, not assumed.                    *)
(***************************************************************************)
EXTENDS Integers, Sequences, FiniteSets, TLC

\* ------------------------------------------------------------------ text

NL == "\n"
CR == "\r"
QUOTE == "\""

DigitChars == <<"0", "1", "2", "3", "4", "5", "6", "7", "8", "9">>

IsDigit(c) == \E d \in 1..10 : DigitChars[d] = c

DigitVal(c) == (CHOOSE d \in 1..10 : DigitChars[d] = c) - 1

IsSpace(c) == c \in {" ", NL, CR, "\t"}

\* Python's str(n) / f"{n}" of an int.
RECURSIVE py_str(_)
py_str(n) ==
  IF n < 0 THEN <<"-">> \o py_str(0 - n)
  ELSE IF n < 10 THEN <<DigitChars[n + 1]>>
  ELSE py_str(n \div 10) \o <<DigitChars[(n % 10) + 1]>>

AllDigits(s) == Len(s) > 0 /\ \A i \in 1..Len(s) : IsDigit(s[i])

RECURSIVE DigitsVal(_)
DigitsVal(s) ==
  IF Len(s) = 0 THEN 0
  ELSE 10 * DigitsVal(SubSeq(s, 1, Len(s) - 1)) + DigitVal(s[Len(s)])

\* str.strip(): leading and trailing whitespace removed.
RECURSIVE lstrip(_)
lstrip(s) == IF Len(s) > 0 /\ IsSpace(s[1]) THEN lstrip(Tail(s)) ELSE s

RECURSIVE rstrip(_)
rstrip(s) ==
  IF Len(s) > 0 /\ IsSpace(s[Len(s)]) THEN rstrip(SubSeq(s, 1, Len(s) - 1)) ELSE s

strip(s) == lstrip(rstrip(s))

\* Python's int(text): surrounding whitespace and one sign are accepted, then
\* decimal digits; anything else raises ValueError (ok = FALSE).
py_int(text) ==
  LET t == strip(text)
      signed == Len(t) > 0 /\ t[1] \in {"-", "+"}
      body == IF signed THEN Tail(t) ELSE t
  IN  IF ~AllDigits(body) THEN [ok |-> FALSE, val |-> 0]
      ELSE IF signed /\ t[1] = "-" THEN [ok |-> TRUE, val |-> 0 - DigitsVal(body)]
      ELSE [ok |-> TRUE, val |-> DigitsVal(body)]

startswith(s, p) == Len(s) >= Len(p) /\ SubSeq(s, 1, Len(p)) = p

endswith(s, p) == Len(s) >= Len(p) /\ SubSeq(s, Len(s) - Len(p) + 1, Len(s)) = p


\* ------------------------------------------------------------ telemetry text

\* The ten channel keys of telemetry_channels.
Keys == {"BR", "M", "S", "I", "SAT", "H", "R", "G", "BL", "TS"}

\* The characters of each key, as they appear inside a received line.
KeyChars ==
  [BR |-> <<"B", "R">>, M |-> <<"M">>, S |-> <<"S">>, I |-> <<"I">>,
   SAT |-> <<"S", "A", "T">>, H |-> <<"H">>, R |-> <<"R">>, G |-> <<"G">>,
   BL |-> <<"B", "L">>, TS |-> <<"T", "S">>]

EmptyDict == [k \in {} |-> 0]

\* json.loads raising JSONDecodeError, and returning the dict d.
JSONDecodeError == [ok |-> FALSE, val |-> EmptyDict]

Parsed(d) == [ok |-> TRUE, val |-> d]

\* Index of the first c in s at or after i, 0 when there is none.
Find(s, c, i) ==
  IF \E j \in i..Len(s) : s[j] = c
  THEN CHOOSE j \in i..Len(s) : s[j] = c /\ \A k \in i..(j - 1) : s[k] # c
  ELSE 0

\* Index just after the run of sign and digit characters that starts at i.
NumEnd(s, i) ==
  IF \E j \in i..Len(s) : ~(IsDigit(s[j]) \/ s[j] = "-")
  THEN CHOOSE j \in i..Len(s) :
         /\ ~(IsDigit(s[j]) \/ s[j] = "-")
         /\ \A k \in i..(j - 1) : IsDigit(s[k]) \/ s[k] = "-"
  ELSE Len(s) + 1

\* A JSON integer literal: optional minus, digits, no leading zero.
IsJsonInt(t) ==
  LET body == IF Len(t) > 0 /\ t[1] = "-" THEN Tail(t) ELSE t
  IN  AllDigits(body) /\ (Len(body) = 1 \/ body[1] # "0")

\* The members of a flat JSON object, read from position i on; acc holds the
\* members read so far (a later duplicate key replaces an earlier one).
RECURSIVE JsonMembers(_, _, _)
JsonMembers(s, i, acc) ==
  IF i > Len(s) \/ s[i] # QUOTE THEN JSONDecodeError
  ELSE
    LET j == Find(s, QUOTE, i + 1)
    IN  IF j = 0 \/ j + 1 > Len(s) \/ s[j + 1] # ":" THEN JSONDecodeError
        ELSE
          LET key == SubSeq(s, i + 1, j - 1)
              k == NumEnd(s, j + 2)
              num == SubSeq(s, j + 2, k - 1)
              acc2 == [x \in (DOMAIN acc) \cup {key} |->
                         IF x = key THEN py_int(num).val ELSE acc[x]]
          IN  IF ~IsJsonInt(num) \/ k > Len(s) THEN JSONDecodeError
              ELSE IF s[k] = "}" THEN (IF k = Len(s) THEN Parsed(acc2) ELSE JSONDecodeError)
              ELSE IF s[k] = "," THEN JsonMembers(s, k + 1, acc2)
              ELSE JSONDecodeError

\* A parser that takes every line for an object.
json_loads_AcceptsAll(s) == Parsed(EmptyDict)

\* json.loads on the lines the model receives: a flat object of integer members
\* parses to a dict, anything else raises JSONDecodeError.  (read_serial calls
\* it only on lines that start with "{".)
json_loads(s) ==
  IF Len(s) < 2 \/ s[1] # "{" THEN JSONDecodeError
  ELSE IF s = <<"{", "}">> THEN Parsed(EmptyDict)
  ELSE JsonMembers(s, 2, EmptyDict)

\* The device's side: one telemetry line for the members in pairs, a sequence
\* of <<key, value>>.
RECURSIVE JsonBody(_)
JsonBody(pairs) ==
  IF Len(pairs) = 0 THEN <<>>
  ELSE <<QUOTE>> \o KeyChars[pairs[1][1]] \o <<QUOTE, ":">> \o py_str(pairs[1][2])
       \o (IF Len(pairs) = 1 THEN <<>> ELSE <<",">> \o JsonBody(Tail(pairs)))

JsonLine(pairs) == <<"{">> \o JsonBody(pairs) \o <<"}", CR, NL>>

\* ------------------------------------------------------------------ map_range

\* A float result, kept exact as a fraction in lowest terms with den > 0.
RECURSIVE Gcd(_, _)
Gcd(a, b) == IF b = 0 THEN a ELSE Gcd(b, a % b)

Abs(a) == IF a < 0 THEN 0 - a ELSE a

Frac(n, d) ==
  LET g == Gcd(Abs(n), Abs(d))
      sgn == IF d < 0 THEN 0 - 1 ELSE 1
  IN  [num |-> sgn * (n \div g), den |-> sgn * (d \div g)]

\* Python's int(float): truncation toward zero.
Trunc(q) ==
  IF q.num >= 0 THEN q.num \div q.den ELSE 0 - ((0 - q.num) \div q.den)


\* A map_range with the output range the wrong way round.
map_range_Swapped(x, in_min, in_max, out_min, out_max) ==
  IF in_max = in_min THEN Frac(out_max, 1)
  ELSE
    LET ratio == Frac(x - in_min, in_max - in_min)
    IN  Frac(out_max * ratio.den + ratio.num * (out_min - out_max), ratio.den)

\* map_range (floats kept exact): out_min when the input range is degenerate,
\* else out_min + ratio * (out_max - out_min).
map_range(x, in_min, in_max, out_min, out_max) ==
  IF in_max = in_min THEN Frac(out_min, 1)
  ELSE
    LET ratio == Frac(x - in_min, in_max - in_min)
    IN  Frac(out_min * ratio.den + ratio.num * (out_max - out_min), ratio.den)


\* ------------------------------------------------------------------ bounds

\* Capacity of every channel deque and of pwm_timestamps.
max_samples == 200

\* Steps explored from an initial state.
MaxSteps == 3

\* read_serial threads alive at once.
MaxThreads == 2

\* Serial handles open at once in the runs that have no step bound.
MaxHandles == 2

\* Frames received in the runs that have no step bound.
MaxFrames == 1

\* datetime.now(): the clock reading is not modelled, only that one was taken.
Now == "now"

\* ------------------------------------------------------------------ inputs

\* Positions the user drags each slider to (within the slider's from_/to).
BrightnessPositions == {0, 128}

SpeedPositions == {1, 200}

IntensityPositions == {0}

SaturationPositions == {0}

HuePositions == {5}

TipsyPositions == {32}

\* Colours picked in the colour chooser.
PickedColours == {<<255, 128, 64>>}

\* Arguments send_command is called with: an effect button, the numeric speed
\* preset "Molasses", and brightness directives as a played macro carries them.
CommandInputs ==
  { <<"R">>,
    <<"~", "V", "2", "5", "0", NL>>,
    <<"~", "B", "2", "0", "0", NL>>,
    <<"~", "B", "3", "0", "0", NL>>,
    <<"~", "B", "x", NL>> }

\* Values map_range is called on: inside, at the ends of and outside 1..200.
MapInputs == {0 - 3, 1, 2, 100, 200, 250}

\* Measured speeds the device reports: inside, at the ends of and outside 1..200.
MeasuredSpeeds == {0, 1, 100, 200, 250, 1000}

\* The telemetry lines that carry a measured speed only.
SpeedLines == {JsonLine(<<<<"S", s>>>>) : s \in MeasuredSpeeds}

\* Both ends of the tipsy slider.
TipsyEnds == {32, 255}

\* Measured speeds in the runs without a step bound: one mapped above 255, one
\* mapped inside 32..255, one mapped below 32.
LiveSpeeds == {0, 100, 1000}

\* Two of the buttons that call send_command_track, a colour and an effect:
\* command and name.
TrackedButtons == {<<"2", "Green">>, <<"P", "Pulse">>}

\* The favourite buttons: effect, speed, colour.
Favorites == {<<"R", 100, "1">>}

\* Names typed into the macro name field.
MacroNames == {"m1"}

\* The members of the telemetry lines the device sends.
FrameBoth == <<<<"BR", 10>>, <<"S", 5>>>>

FrameAll ==
  << <<"BR", 20>>, <<"M", 3>>, <<"S", 100>>, <<"I", 7>>, <<"SAT", 8>>,
     <<"H", 2>>, <<"R", 11>>, <<"G", 12>>, <<"BL", 13>>, <<"TS", 14>> >>

FrameMode == <<<<"M", 4>>>>

TextHello == <<"h", "e", "l", "l", "o", CR, NL>>

\* Starts with "{" but is no JSON: the key is not quoted.
TextBadJson == <<"{", "B", "R", ":", "1", "0", "}", CR, NL>>

\* Starts with "{" but is cut short.
TextCutJson == <<"{", QUOTE, "B", "R", QUOTE, ":", "1", CR, NL>>

TextBlank == <<CR, NL>>

ReceivedLines ==
  { JsonLine(FrameBoth), JsonLine(FrameAll), JsonLine(FrameMode),
    TextHello, TextBadJson, TextCutJson, TextBlank }

\* ------------------------------------------------------------------ state

VARIABLES
  is_connected,        \* self.is_connected
  serial_port,         \* self.serial_port: "None", "open" or "closed"
  open_handles,        \* serial handles opened and not closed
  reader_pc,           \* each read_serial thread: "none", "check" (at the while), "body"
  macro_recording,     \* self.macro_recording
  recorded_commands,   \* self.recorded_commands
  macros,              \* self.macros: name -> commands
  brightness_val, speed_val, intensity_val, saturation_val, hue_rotation_val,
  tipsy_sync_value, custom_rgb,
  bind_tipsy_var,      \* self.bind_tipsy_var
  after_queue,         \* callbacks queued by root.after(0, ...): the tipsy values
  telemetry_channels,  \* key -> the 'history' deque
  pwm_timestamps,      \* self.pwm_timestamps
  arrivals,            \* key -> every value appended since the last clear (history)
  tx,                  \* write attempts of the latest step: [data, ok]
  logged,              \* command_history entries added by the latest step
  mr,                  \* a map_range call: its arguments and result
  current_effect,      \* self.current_effect
  current_color,       \* self.current_color
  auto_update_graph,   \* self.auto_update_graph
  graph_timers,        \* schedule_graph_update callbacks root.after holds
  steps

vars ==
  << is_connected, serial_port, open_handles, reader_pc, macro_recording,
     recorded_commands, macros, brightness_val, speed_val, intensity_val,
     saturation_val, hue_rotation_val, tipsy_sync_value, custom_rgb,
     bind_tipsy_var, after_queue, telemetry_channels, pwm_timestamps, arrivals,
     tx, logged, mr, current_effect, current_color, auto_update_graph,
     graph_timers, steps >>

connVars == <<is_connected, serial_port, open_handles, reader_pc>>

trackVars == <<current_effect, current_color>>

graphVars == <<auto_update_graph, graph_timers>>

macroVars == <<macro_recording, recorded_commands, macros>>

sliderVars ==
  <<speed_val, intensity_val, saturation_val, hue_rotation_val, custom_rgb>>

bufVars == <<telemetry_channels, pwm_timestamps, arrivals>>

Threads == 1..MaxThreads

NoCall == [x |-> 0, in_min |-> 0, in_max |-> 0, out_min |-> 0, out_max |-> 0,
           done |-> FALSE, ret |-> Frac(0, 1)]

\* ------------------------------------------------------------------ Init

\* The members of the i-th line of a stream the device sent earlier.
StreamFrame(i) ==
  [BR |-> i, M |-> 1, S |-> 5, I |-> 128, SAT |-> 255, H |-> 1,
   R |-> 255, G |-> 0, BL |-> 0, TS |-> 128]

PrefillLen == max_samples - 1

\* __init__: nothing connected, nothing recorded, empty deques.
Fresh ==
  /\ is_connected = FALSE
  /\ serial_port = "None"
  /\ open_handles = 0
  /\ reader_pc = [t \in Threads |-> "none"]
  /\ brightness_val = 255
  /\ speed_val = 10
  /\ intensity_val = 128
  /\ saturation_val = 255
  /\ hue_rotation_val = 1
  /\ telemetry_channels = [k \in Keys |-> <<>>]
  /\ pwm_timestamps = <<>>
  /\ arrivals = [k \in Keys |-> <<>>]

\* The brightness slider was dragged through PrefillLen positions before:
\* each on_brightness_change appended to 'BR' and to pwm_timestamps.
Dragged ==
  /\ is_connected = FALSE
  /\ serial_port = "None"
  /\ open_handles = 0
  /\ reader_pc = [t \in Threads |-> "none"]
  /\ brightness_val = PrefillLen
  /\ speed_val = 10
  /\ intensity_val = 128
  /\ saturation_val = 255
  /\ hue_rotation_val = 1
  /\ telemetry_channels =
       [k \in Keys |-> IF k = "BR" THEN [i \in 1..PrefillLen |-> i] ELSE <<>>]
  /\ pwm_timestamps = [i \in 1..PrefillLen |-> Now]
  /\ arrivals =
       [k \in Keys |-> IF k = "BR" THEN [i \in 1..PrefillLen |-> i] ELSE <<>>]

\* The port was opened and PrefillLen lines StreamFrame(1), StreamFrame(2), ...
\* were ingested before; the reader has passed its while test again.
Streamed ==
  /\ is_connected = TRUE
  /\ serial_port = "open"
  /\ open_handles = 1
  /\ reader_pc = [t \in Threads |-> IF t = 1 THEN "body" ELSE "none"]
  /\ brightness_val = StreamFrame(PrefillLen).BR
  /\ speed_val = StreamFrame(PrefillLen).S
  /\ intensity_val = StreamFrame(PrefillLen).I
  /\ saturation_val = StreamFrame(PrefillLen).SAT
  /\ hue_rotation_val = StreamFrame(PrefillLen).H
  /\ telemetry_channels = [k \in Keys |-> [i \in 1..PrefillLen |-> StreamFrame(i)[k]]]
  /\ pwm_timestamps = [i \in 1..PrefillLen |-> Now]
  /\ arrivals = [k \in Keys |-> [i \in 1..PrefillLen |-> StreamFrame(i)[k]]]

\* The port was opened and the reader started: it has passed its while test
\* and received nothing yet.
Connected ==
  /\ is_connected = TRUE
  /\ serial_port = "open"
  /\ open_handles = 1
  /\ reader_pc = [t \in Threads |-> IF t = 1 THEN "body" ELSE "none"]
  /\ brightness_val = 255
  /\ speed_val = 10
  /\ intensity_val = 128
  /\ saturation_val = 255
  /\ hue_rotation_val = 1
  /\ telemetry_channels = [k \in Keys |-> <<>>]
  /\ pwm_timestamps = <<>>
  /\ arrivals = [k \in Keys |-> <<>>]

\* The status line and the graph timer as __init__ and setup_graph_tab leave
\* them: live updates on, one schedule_graph_update pending.
Panel ==
  /\ current_effect = "Rainbow"
  /\ current_color = "Red"
  /\ auto_update_graph = TRUE
  /\ graph_timers = 1

\* What no earlier dragging or streaming has touched.
Untouched ==
  /\ macro_recording = FALSE
  /\ recorded_commands = <<>>
  /\ macros = EmptyDict
  /\ tipsy_sync_value = 128
  /\ custom_rgb = <<255, 0, 0>>
  /\ bind_tipsy_var = FALSE
  /\ after_queue = <<>>
  /\ tx = <<>>
  /\ logged = <<>>
  /\ steps = 0
  /\ Panel

\* The bind checkbox was ticked before any speed sample came in (so the binding
\* sent nothing); nothing else was used.
BindOn ==
  /\ macro_recording = FALSE
  /\ recorded_commands = <<>>
  /\ macros = EmptyDict
  /\ tipsy_sync_value = 128
  /\ custom_rgb = <<255, 0, 0>>
  /\ bind_tipsy_var = TRUE
  /\ after_queue = <<>>
  /\ tx = <<>>
  /\ logged = <<>>
  /\ steps = 0
  /\ Panel

\* The user ticked the bind checkbox and started a macro recording.
Recording ==
  /\ macro_recording = TRUE
  /\ recorded_commands = <<>>
  /\ macros = EmptyDict
  /\ tipsy_sync_value = 128
  /\ custom_rgb = <<255, 0, 0>>
  /\ bind_tipsy_var = TRUE
  /\ after_queue = <<>>
  /\ tx = <<>>
  /\ logged = <<>>
  /\ steps = 0
  /\ Panel

\* The macro an earlier session saved to macros.json, as load_macros reads it:
\* the effect button R, then brightness 200.
SavedMacro == <<<<"R">>, <<"~", "B", "2", "0", "0", NL>>>>

\* load_macros found a macro; the user ticked the bind checkbox.
Replaying ==
  /\ macro_recording = FALSE
  /\ recorded_commands = <<>>
  /\ macros = [n \in MacroNames |-> SavedMacro]
  /\ tipsy_sync_value = 128
  /\ custom_rgb = <<255, 0, 0>>
  /\ bind_tipsy_var = TRUE
  /\ after_queue = <<>>
  /\ tx = <<>>
  /\ logged = <<>>
  /\ steps = 0
  /\ Panel

\* The program just after its port was opened, recording a macro or holding
\* a saved one.
InitMacro == Connected /\ (Recording \/ Replaying) /\ mr = NoCall

\* The program just after its port was opened, the tipsy binding off or on.
InitBind == Connected /\ (Untouched \/ BindOn) /\ mr = NoCall

\* The program as constructed, or just after its port was opened.
Init == (Fresh \/ Connected) /\ Untouched /\ mr = NoCall

\* The program with its deques one short of full.
InitFull == (Dragged \/ Streamed) /\ Untouched /\ mr = NoCall

\* The program as constructed, about to call map_range on arguments drawn
\* around the ranges the tipsy binding uses.
InitMap ==
  /\ Fresh
  /\ Untouched
  /\ \E x \in MapInputs, in_min \in {1, 200}, in_max \in {1, 200},
        out_min \in {255, 50}, out_max \in {50, 255} :
        mr = [x |-> x, in_min |-> in_min, in_max |-> in_max, out_min |-> out_min,
              out_max |-> out_max, done |-> FALSE, ret |-> Frac(0, 1)]

\* ------------------------------------------------------------------ handlers
\* The fields a handler's calls change, threaded through the calls it makes in
\* the order the code makes them.

Cur ==
  [conn |-> is_connected, rec |-> recorded_commands, chans |-> telemetry_channels,
   ts |-> pwm_timestamps, arr |-> arrivals, tipsy |-> tipsy_sync_value,
   afterq |-> after_queue, tx |-> <<>>, log |-> <<>>]

Commit(m) ==
  /\ is_connected' = m.conn
  /\ recorded_commands' = m.rec
  /\ telemetry_channels' = m.chans
  /\ pwm_timestamps' = m.ts
  /\ arrivals' = m.arr
  /\ tipsy_sync_value' = m.tipsy
  /\ after_queue' = m.afterq
  /\ tx' = m.tx
  /\ logged' = m.log

Tick == steps < MaxSteps /\ steps' = steps + 1

\* A deque that drops its newest item when full.
DequeAppend_DropsNewest(q, v) ==
  IF Len(q) >= max_samples THEN Append(SubSeq(q, 1, Len(q) - 1), v) ELSE Append(q, v)

\* A deque whose capacity test is off by one.
DequeAppend_OffByOne(q, v) ==
  IF Len(q) > max_samples THEN Append(Tail(q), v) ELSE Append(q, v)

\* deque(maxlen=max_samples).append: a full deque drops its oldest item.
DequeAppend(q, v) ==
  IF Len(q) >= max_samples THEN Append(Tail(q), v) ELSE Append(q, v)

\* channel['history'].append(v)
ChannelAppend(m, key, v) ==
  [m EXCEPT !.chans[key] = DequeAppend(@, v), !.arr[key] = Append(@, v)]

\* add_history: the entry is stamped and appended to command_history.
Entry(message) == <<"[", Now, "] ">> \o message

add_history(m, message) == [m EXCEPT !.log = Append(@, Entry(message))]

\* update_pwm_graph
update_pwm_graph(m, brightness) ==
  LET m1 == ChannelAppend(m, "BR", brightness)
  IN  [m1 EXCEPT !.ts = DequeAppend(@, Now)]

\* serial_port.write(data): the attempt numbered fail_at in this step raises.
WriteOk(m, fail_at) == Len(m.tx) + 1 # fail_at

PortWrite(m, data, fail_at) ==
  [m EXCEPT !.tx = Append(@, [data |-> data, ok |-> WriteOk(m, fail_at)])]

\* A normalisation that terminates every command.
normalise_Always(cmd) == cmd \o <<NL>>

\* send_command's normalisation: a one-character command gets its newline.
normalise(cmd) == IF Len(cmd) = 1 THEN cmd \o <<NL>> ELSE cmd

\* send_command
send_command(m, cmd, fail_at) ==
  IF ~m.conn THEN m
  ELSE
    LET m1 == IF macro_recording THEN [m EXCEPT !.rec = Append(@, cmd)] ELSE m
        c == normalise(cmd)
        pwm_val == py_int(SubSeq(c, 3, Len(c) - 1))
        m2 == IF /\ startswith(c, <<"~", "B">>)
                 /\ endswith(c, <<NL>>)
                 /\ pwm_val.ok
                 /\ 0 <= pwm_val.val
                 /\ pwm_val.val <= 255
              THEN update_pwm_graph(m1, pwm_val.val)
              ELSE m1
        m3 == PortWrite(m2, c, fail_at)
    IN  IF WriteOk(m2, fail_at)
        THEN add_history(m3, <<"-> Sent: ">> \o strip(c))
        ELSE [m3 EXCEPT !.conn = FALSE]

\* A _send_numeric_cmd that records only what it managed to write.
send_numeric_cmd_RecordsAfterWrite(m, cmd, history_msg, fail_at) ==
  IF ~m.conn THEN m
  ELSE
    LET m2 == PortWrite(m, cmd, fail_at)
    IN  IF WriteOk(m, fail_at)
        THEN add_history(
               IF macro_recording THEN [m2 EXCEPT !.rec = Append(@, cmd)] ELSE m2,
               <<"-> ">> \o history_msg)
        ELSE [m2 EXCEPT !.conn = FALSE]

\* A _send_numeric_cmd without the test of is_connected.
send_numeric_cmd_Unguarded(m, cmd, history_msg, fail_at) ==
  LET m1 == IF macro_recording THEN [m EXCEPT !.rec = Append(@, cmd)] ELSE m
      m2 == PortWrite(m1, cmd, fail_at)
  IN  IF WriteOk(m1, fail_at)
      THEN add_history(m2, <<"-> ">> \o history_msg)
      ELSE [m2 EXCEPT !.conn = FALSE]

\* A _send_numeric_cmd that leaves is_connected alone when the write raises.
send_numeric_cmd_StaysConnected(m, cmd, history_msg, fail_at) ==
  IF ~m.conn THEN m
  ELSE
    LET m1 == IF macro_recording THEN [m EXCEPT !.rec = Append(@, cmd)] ELSE m
        m2 == PortWrite(m1, cmd, fail_at)
    IN  IF WriteOk(m1, fail_at)
        THEN add_history(m2, <<"-> ">> \o history_msg)
        ELSE m2

\* _send_numeric_cmd
send_numeric_cmd(m, cmd, history_msg, fail_at) ==
  IF ~m.conn THEN m
  ELSE
    LET m1 == IF macro_recording THEN [m EXCEPT !.rec = Append(@, cmd)] ELSE m
        m2 == PortWrite(m1, cmd, fail_at)
    IN  IF WriteOk(m1, fail_at)
        THEN add_history(m2, <<"-> ">> \o history_msg)
        ELSE [m2 EXCEPT !.conn = FALSE]

\* A directive without its type character.
Directive_NoType(type, val) == <<"~">> \o py_str(val) \o <<NL>>

\* The directive "~" + type + value + newline the numeric senders format.
Directive(type, val) == <<"~", type>> \o py_str(val) \o <<NL>>

\* An apply_bound_tipsy that does not clamp.
apply_bound_tipsy_NoClamp(m, val, fail_at) ==
  LET m1 == send_command([m EXCEPT !.tipsy = val], Directive("T", val), fail_at)
  IN  add_history(m1, <<"-> Sent (bound): Tipsy Sync ">> \o py_str(val))

\* apply_bound_tipsy
apply_bound_tipsy(m, val, fail_at) ==
  LET v == IF val > 255 THEN 255 ELSE IF val < 32 THEN 32 ELSE val
      m1 == send_command([m EXCEPT !.tipsy = v], Directive("T", v), fail_at)
  IN  add_history(m1, <<"-> Sent (bound): Tipsy Sync ">> \o py_str(v))


\* A send_brightness that does not chart the value.
send_brightness_NoChart(m, fail_at) ==
  send_numeric_cmd(m, Directive("B", brightness_val),
                   <<"Brightness set to ">> \o py_str(brightness_val), fail_at)

\* send_brightness: the directive goes out, then the value is charted.
send_brightness(m, fail_at) ==
  LET val == brightness_val
      m1 == send_numeric_cmd(m, Directive("B", val),
                             <<"Brightness set to ">> \o py_str(val), fail_at)
  IN  update_pwm_graph(m1, val)

\* f"{r},{g},{b}"
rgb_text(c) == py_str(c[1]) \o <<",">> \o py_str(c[2]) \o <<",">> \o py_str(c[3])

\* send_custom_rgb
send_custom_rgb(m, fail_at) ==
  IF ~m.conn THEN m
  ELSE
    LET rgb == rgb_text(custom_rgb)
        command == <<"G">> \o rgb \o <<NL>>
        m1 == IF macro_recording THEN [m EXCEPT !.rec = Append(@, command)] ELSE m
        m2 == PortWrite(m1, command, fail_at)
    IN  IF WriteOk(m1, fail_at)
        THEN add_history(m2, <<"-> Sent Custom RGB: (">> \o rgb \o <<")">>)
        ELSE [m2 EXCEPT !.conn = FALSE]

\* send_tipsy_sync
send_tipsy_sync(m, fail_at) ==
  LET t == m.tipsy
      val == IF t > 255 THEN 255 ELSE IF t < 32 THEN 32 ELSE t
      m1 == send_command(m, Directive("T", val), fail_at)
  IN  add_history(m1, <<"-> Sent: Tipsy Sync ">> \o py_str(val))

\* root.update(): the callbacks root.after(0, ...) queued run now, in order.
RECURSIVE root_update(_, _)
root_update(m, fail_at) ==
  IF m.afterq = <<>> THEN m
  ELSE root_update(
         apply_bound_tipsy([m EXCEPT !.afterq = Tail(@)], Head(m.afterq), fail_at),
         fail_at)

\* The loop of play_macro: send_command then root.update() per command.
RECURSIVE play_commands(_, _, _)
play_commands(m, commands, fail_at) ==
  IF commands = <<>> THEN m
  ELSE play_commands(root_update(send_command(m, Head(commands), fail_at), fail_at),
                     Tail(commands), fail_at)

\* The order read_serial looks the keys up in.
KeyOrder == <<"BR", "M", "S", "I", "SAT", "H", "R", "G", "BL", "TS">>

\* The appends of read_serial for the parsed dict telemetry, key by key.
RECURSIVE ingest_channels(_, _, _)
ingest_channels(m, telemetry, i) ==
  IF i > Len(KeyOrder) THEN m
  ELSE
    LET key == KeyOrder[i]
        m1 == IF KeyChars[key] \in DOMAIN telemetry
              THEN ChannelAppend(m, key, telemetry[KeyChars[key]])
              ELSE m
    IN  ingest_channels(m1, telemetry, i + 1)

\* A reader that never stores the received value.
Received_Stale(telemetry, key, old) == old

\* The scalar a telemetry key sets: the received value when the key is present.
Received(telemetry, key, old) ==
  IF KeyChars[key] \in DOMAIN telemetry THEN telemetry[KeyChars[key]] ELSE old

\* A read_serial that stamps a frame of several keys twice.
stamp_frame_PerKey(timestamps, telemetry) ==
  IF Cardinality(DOMAIN telemetry) > 1
  THEN DequeAppend(DequeAppend(timestamps, Now), Now)
  ELSE DequeAppend(timestamps, Now)

\* self.pwm_timestamps.append(datetime.now()), once the keys of the frame
\* have been looked up.
stamp_frame(timestamps, telemetry) == DequeAppend(timestamps, Now)

\* A read_serial that maps the measured speed onto 50..255, slow to fast.
BoundTipsy_Reversed(s_val) == Trunc(map_range(s_val, 1, 200, 50, 255))

\* The tipsy value read_serial schedules for a measured speed.
BoundTipsy(s_val) == Trunc(map_range(s_val, 1, 200, 255, 50))


\* ------------------------------------------------------------------ UI thread

\* connect_port, which is disconnect_port when already connected.
connect_port(open_ok) ==
  /\ IF is_connected
     THEN /\ serial_port' = IF serial_port = "None" THEN "None" ELSE "closed"
          /\ open_handles' = IF serial_port = "open" THEN open_handles - 1
                             ELSE open_handles
          /\ is_connected' = FALSE
          /\ reader_pc' = reader_pc
          /\ logged' = <<Entry(<<"[DISCONNECTED]">>)>>
     ELSE IF open_ok
     THEN /\ \E t \in Threads : reader_pc[t] = "none"
          /\ serial_port' = "open"
          /\ open_handles' = open_handles + 1
          /\ is_connected' = TRUE
          /\ LET t == CHOOSE u \in Threads :
                        reader_pc[u] = "none" /\ \A w \in 1..(u - 1) : reader_pc[w] # "none"
             IN  reader_pc' = [reader_pc EXCEPT ![t] = "check"]
          /\ logged' = <<Entry(<<"[CONNECTED]">>)>>
     ELSE /\ is_connected' = FALSE
          /\ UNCHANGED <<serial_port, open_handles, reader_pc>>
          /\ logged' = <<>>
  /\ tx' = <<>>
  /\ UNCHANGED <<macroVars, brightness_val, sliderVars, tipsy_sync_value,
                 bind_tipsy_var, after_queue, bufVars, mr, trackVars, graphVars>>

\* The user clicks Connect / Disconnect.
ui_connect_port(open_ok) == Tick /\ connect_port(open_ok)

\* What every handler that goes through the Command Channel leaves alone.
sendVars ==
  <<serial_port, open_handles, reader_pc, macro_recording, macros,
    brightness_val, sliderVars, bind_tipsy_var, mr, graphVars>>

SendFrame == UNCHANGED <<sendVars, trackVars>>

call_send_command(cmd, fail_at) ==
  /\ Commit(send_command(Cur, cmd, fail_at))
  /\ SendFrame

\* A button, a preset or a macro line hands cmd to send_command.
ui_send_command(cmd, fail_at) == Tick /\ call_send_command(cmd, fail_at)

ui_send_brightness(fail_at) ==
  /\ Tick
  /\ Commit(send_brightness(Cur, fail_at))
  /\ SendFrame

ui_send_speed(fail_at) ==
  /\ Tick
  /\ Commit(send_numeric_cmd(Cur, Directive("V", speed_val),
              <<"Speed set to ">> \o py_str(speed_val) \o <<"ms">>, fail_at))
  /\ SendFrame

ui_send_intensity(fail_at) ==
  /\ Tick
  /\ Commit(send_numeric_cmd(Cur, Directive("I", intensity_val),
              <<"Intensity set to ">> \o py_str(intensity_val), fail_at))
  /\ SendFrame

ui_send_saturation(fail_at) ==
  /\ Tick
  /\ Commit(send_numeric_cmd(Cur, Directive("U", saturation_val),
              <<"Saturation set to ">> \o py_str(saturation_val), fail_at))
  /\ SendFrame

ui_send_hue(fail_at) ==
  /\ Tick
  /\ Commit(send_numeric_cmd(Cur, Directive("H", hue_rotation_val),
              <<"Hue speed set to ">> \o py_str(hue_rotation_val), fail_at))
  /\ SendFrame

ui_send_custom_rgb(fail_at) ==
  /\ Tick
  /\ Commit(send_custom_rgb(Cur, fail_at))
  /\ SendFrame

ui_send_tipsy_sync(fail_at) ==
  /\ Tick
  /\ Commit(send_tipsy_sync(Cur, fail_at))
  /\ SendFrame

\* The event loop runs the oldest callback root.after(0, ...) queued.
run_after_callback(fail_at) ==
  /\ after_queue # <<>>
  /\ Commit(apply_bound_tipsy([Cur EXCEPT !.afterq = Tail(@)], Head(after_queue),
                              fail_at))
  /\ SendFrame

\* The event loop is idle and runs the oldest queued callback.
ui_apply_bound_tipsy(fail_at) == Tick /\ run_after_callback(fail_at)

\* send_command_track from a colour or an effect button.
ui_send_command_track(button, fail_at) ==
  /\ Tick
  /\ Commit(send_command(Cur, <<button[1]>>, fail_at))
  /\ IF button[1] \in {"1", "2", "3", "4", "5", "6", "7", "8", "9", "0"}
     THEN current_color' = button[2] /\ current_effect' = current_effect
     ELSE current_effect' = button[2] /\ current_color' = current_color
  /\ UNCHANGED sendVars

\* What the graph timer and its checkbox leave alone.
GraphFrame ==
  /\ UNCHANGED <<connVars, macroVars, brightness_val, sliderVars, tipsy_sync_value,
                 bind_tipsy_var, after_queue, bufVars, mr, trackVars>>
  /\ tx' = <<>>

\* The Live Updates checkbutton flips auto_update_var, then toggle_auto_update
\* runs; switched on, it calls schedule_graph_update, which queues itself.
ui_toggle_auto_update ==
  /\ Tick
  /\ auto_update_graph' = ~auto_update_graph
  /\ IF ~auto_update_graph
     THEN /\ logged' = <<Entry(<<"[AUTO-UPDATE ENABLED]">>)>>
          /\ graph_timers' = graph_timers + 1
     ELSE /\ logged' = <<Entry(<<"[AUTO-UPDATE DISABLED]">>)>>
          /\ graph_timers' = graph_timers
  /\ GraphFrame

\* A queued schedule_graph_update comes due: it redraws and queues itself
\* again while live updates are on, and does nothing more when they are off.
ui_schedule_graph_update ==
  /\ Tick
  /\ graph_timers > 0
  /\ graph_timers' = IF auto_update_graph THEN graph_timers ELSE graph_timers - 1
  /\ auto_update_graph' = auto_update_graph
  /\ logged' = <<>>
  /\ GraphFrame

\* play_macro with name selected in the combobox.
ui_play_macro(name, fail_at) ==
  /\ Tick
  /\ IF is_connected
     THEN Commit(play_commands(add_history(Cur, <<"[MACRO PLAYING] ", name>>),
                               IF name \in DOMAIN macros THEN macros[name] ELSE <<>>,
                               fail_at))
     ELSE Commit(Cur)
  /\ SendFrame

\* play_favorite from one of the favourite buttons.
ui_play_favorite(fav, fail_at) ==
  /\ Tick
  /\ IF is_connected
     THEN LET m1 == send_command(Cur, <<fav[3]>>, fail_at)
              m2 == send_command(m1, <<fav[1]>>, fail_at)
          IN  Commit(add_history(m2, <<"[FAVORITE] Effect:", fav[1], " Speed:">>
                                     \o py_str(fav[2]) \o <<"ms Color:", fav[3]>>))
     ELSE Commit(Cur)
  /\ SendFrame

\* The checkbutton flips bind_tipsy_var, then toggle_bind_tipsy runs.
toggle_bind_tipsy(fail_at) ==
  /\ bind_tipsy_var' = ~bind_tipsy_var
  /\ LET hist == telemetry_channels["S"]
     IN  IF ~bind_tipsy_var
         THEN LET m1 == add_history(Cur, <<"[TIPSY BIND ENABLED]">>)
              IN  IF hist # <<>>
                  THEN Commit(apply_bound_tipsy(m1, BoundTipsy(hist[Len(hist)]), fail_at))
                  ELSE Commit(m1)
         ELSE Commit(add_history(Cur, <<"[TIPSY BIND DISABLED]">>))
  /\ UNCHANGED <<serial_port, open_handles, reader_pc, macro_recording, macros,
                 brightness_val, sliderVars, mr, trackVars, graphVars>>

\* The user clicks the bind checkbox.
ui_toggle_bind_tipsy(fail_at) == Tick /\ toggle_bind_tipsy(fail_at)

\* What a handler that only sets state of its own leaves alone.
LocalFrame ==
  /\ UNCHANGED <<connVars, bind_tipsy_var, after_queue, mr, trackVars, graphVars>>
  /\ tx' = <<>>

\* on_brightness_change; when the quick slider stood elsewhere it is moved too
\* and on_q_brightness_change charts the value a first time.
ui_on_brightness_change(val, q_differs) ==
  /\ Tick
  /\ brightness_val' = val
  /\ LET m1 == IF q_differs THEN update_pwm_graph(Cur, val) ELSE Cur
         m2 == update_pwm_graph(m1, val)
     IN  /\ telemetry_channels' = m2.chans
         /\ pwm_timestamps' = m2.ts
         /\ arrivals' = m2.arr
  /\ logged' = <<>>
  /\ LocalFrame
  /\ UNCHANGED <<macroVars, sliderVars, tipsy_sync_value>>

ui_on_speed_change(val) ==
  /\ Tick
  /\ speed_val' = val
  /\ logged' = <<>>
  /\ LocalFrame
  /\ UNCHANGED <<macroVars, bufVars, brightness_val, intensity_val, saturation_val,
                 hue_rotation_val, custom_rgb, tipsy_sync_value>>

ui_on_intensity_change(val) ==
  /\ Tick
  /\ intensity_val' = val
  /\ logged' = <<>>
  /\ LocalFrame
  /\ UNCHANGED <<macroVars, bufVars, brightness_val, speed_val, saturation_val,
                 hue_rotation_val, custom_rgb, tipsy_sync_value>>

ui_on_saturation_change(val) ==
  /\ Tick
  /\ saturation_val' = val
  /\ logged' = <<>>
  /\ LocalFrame
  /\ UNCHANGED <<macroVars, bufVars, brightness_val, speed_val, intensity_val,
                 hue_rotation_val, custom_rgb, tipsy_sync_value>>

ui_on_hue_change(val) ==
  /\ Tick
  /\ hue_rotation_val' = val
  /\ logged' = <<>>
  /\ LocalFrame
  /\ UNCHANGED <<macroVars, bufVars, brightness_val, speed_val, intensity_val,
                 saturation_val, custom_rgb, tipsy_sync_value>>

ui_on_tipsy_sync_change(val) ==
  /\ Tick
  /\ tipsy_sync_value' = val
  /\ logged' = <<>>
  /\ LocalFrame
  /\ UNCHANGED <<macroVars, bufVars, brightness_val, sliderVars>>

\* pick_custom_color with a colour chosen in the dialog.
ui_pick_custom_color(rgb) ==
  /\ Tick
  /\ custom_rgb' = rgb
  /\ logged' = <<>>
  /\ LocalFrame
  /\ UNCHANGED <<macroVars, bufVars, brightness_val, speed_val, intensity_val,
                 saturation_val, hue_rotation_val, tipsy_sync_value>>

\* clear_graph
ui_clear_graph ==
  /\ Tick
  /\ telemetry_channels' = [k \in Keys |-> <<>>]
  /\ pwm_timestamps' = <<>>
  /\ arrivals' = [k \in Keys |-> <<>>]
  /\ logged' = <<Entry(<<"[OSCILLOSCOPE CLEARED]">>)>>
  /\ LocalFrame
  /\ UNCHANGED <<macroVars, brightness_val, sliderVars, tipsy_sync_value>>

\* A toggle_macro_record that starts a recording on top of the last one.
ui_toggle_macro_record_KeepsOld ==
  /\ Tick
  /\ macro_recording' = ~macro_recording
  /\ recorded_commands' = recorded_commands
  /\ logged' = IF ~macro_recording THEN <<Entry(<<"[MACRO RECORD STARTED]">>)>>
               ELSE <<Entry(<<"[MACRO RECORD STOPPED]">>)>>
  /\ LocalFrame
  /\ UNCHANGED <<macros, bufVars, brightness_val, sliderVars, tipsy_sync_value>>

\* toggle_macro_record
ui_toggle_macro_record ==
  /\ Tick
  /\ macro_recording' = ~macro_recording
  /\ IF ~macro_recording
     THEN /\ recorded_commands' = <<>>
          /\ logged' = <<Entry(<<"[MACRO RECORD STARTED]">>)>>
     ELSE /\ recorded_commands' = recorded_commands
          /\ logged' = <<Entry(<<"[MACRO RECORD STOPPED]">>)>>
  /\ LocalFrame
  /\ UNCHANGED <<macros, bufVars, brightness_val, sliderVars, tipsy_sync_value>>

\* A clear_recording that empties the list in place, a macro saved without
\* copy() being that same list.
ui_clear_recording_InPlace ==
  /\ Tick
  /\ recorded_commands' = <<>>
  /\ macros' = [n \in DOMAIN macros |->
                  IF macros[n] = recorded_commands THEN <<>> ELSE macros[n]]
  /\ logged' = <<Entry(<<"[RECORDING CLEARED]">>)>>
  /\ LocalFrame
  /\ UNCHANGED <<macro_recording, bufVars, brightness_val, sliderVars,
                 tipsy_sync_value>>

\* clear_recording
ui_clear_recording ==
  /\ Tick
  /\ recorded_commands' = <<>>
  /\ logged' = <<Entry(<<"[RECORDING CLEARED]">>)>>
  /\ LocalFrame
  /\ UNCHANGED <<macro_recording, macros, bufVars, brightness_val, sliderVars,
                 tipsy_sync_value>>

\* save_macro with name typed into the name field.
ui_save_macro(name) ==
  /\ Tick
  /\ IF recorded_commands = <<>>
     THEN /\ macros' = macros
          /\ logged' = <<>>
     ELSE /\ macros' = [n \in (DOMAIN macros) \cup {name} |->
                          IF n = name THEN recorded_commands ELSE macros[n]]
          /\ logged' = <<Entry(<<"[MACRO SAVED] ", name>>)>>
  /\ LocalFrame
  /\ UNCHANGED <<macro_recording, recorded_commands, bufVars, brightness_val,
                 sliderVars, tipsy_sync_value>>


\* ------------------------------------------------------------------ read_serial

ReaderFrame == UNCHANGED <<is_connected, serial_port, open_handles, macroVars,
                           custom_rgb, tipsy_sync_value, bind_tipsy_var, mr,
                           trackVars, graphVars>>

\* The test of "while self.is_connected".
while_is_connected(t) ==
  /\ reader_pc[t] = "check"
  /\ reader_pc' = [reader_pc EXCEPT ![t] = IF is_connected THEN "body" ELSE "none"]
  /\ tx' = <<>>
  /\ logged' = <<>>
  /\ ReaderFrame
  /\ UNCHANGED <<bufVars, brightness_val, speed_val, intensity_val, saturation_val,
                 hue_rotation_val, after_queue>>

\* Thread t is scheduled at the test of its loop.
read_serial_check(t) == Tick /\ while_is_connected(t)

\* One pass of the loop body in which readline returns raw.
loop_body(t, raw) ==
  /\ reader_pc[t] = "body"
  /\ serial_port = "open"
  /\ reader_pc' = [reader_pc EXCEPT ![t] = "check"]
  /\ tx' = <<>>
  /\ LET data == strip(raw)
         loaded == json_loads(data)
     IN  IF data # <<>> /\ startswith(data, <<"{">>) /\ loaded.ok
         THEN LET telemetry == loaded.val
                  m == ingest_channels(Cur, telemetry, 1)
              IN  /\ telemetry_channels' = m.chans
                  /\ arrivals' = m.arr
                  /\ pwm_timestamps' = stamp_frame(pwm_timestamps, telemetry)
                  /\ brightness_val' = Received(telemetry, "BR", brightness_val)
                  /\ speed_val' = Received(telemetry, "S", speed_val)
                  /\ intensity_val' = Received(telemetry, "I", intensity_val)
                  /\ saturation_val' = Received(telemetry, "SAT", saturation_val)
                  /\ hue_rotation_val' = Received(telemetry, "H", hue_rotation_val)
                  /\ after_queue' =
                       IF KeyChars["S"] \in DOMAIN telemetry /\ bind_tipsy_var
                       THEN Append(after_queue, BoundTipsy(telemetry[KeyChars["S"]]))
                       ELSE after_queue
                  /\ logged' = <<>>
         ELSE /\ logged' = IF data = <<>> THEN <<>>
                           ELSE <<Entry(<<"<- Received: ">> \o data)>>
              /\ UNCHANGED <<bufVars, brightness_val, speed_val, intensity_val,
                             saturation_val, hue_rotation_val, after_queue>>
  /\ ReaderFrame

\* Thread t is scheduled for one pass of its loop body.
read_serial_body(t, raw) == Tick /\ loop_body(t, raw)

\* A pass of the loop body in which the port raises (closed, or unplugged): break.
loop_break(t) ==
  /\ reader_pc[t] = "body"
  /\ reader_pc' = [reader_pc EXCEPT ![t] = "none"]
  /\ tx' = <<>>
  /\ logged' = <<>>
  /\ ReaderFrame
  /\ UNCHANGED <<bufVars, brightness_val, speed_val, intensity_val, saturation_val,
                 hue_rotation_val, after_queue>>

\* Thread t is scheduled and its read raises.
read_serial_raise(t) == Tick /\ loop_break(t)

\* ------------------------------------------------------------------ Spec

Next ==
  \/ \E open_ok \in BOOLEAN : ui_connect_port(open_ok)
  \/ \E cmd \in CommandInputs, fail_at \in 0..1 : ui_send_command(cmd, fail_at)
  \/ \E fail_at \in 0..1 : ui_send_brightness(fail_at)
  \/ \E fail_at \in 0..1 : ui_send_speed(fail_at)
  \/ \E fail_at \in 0..1 : ui_send_intensity(fail_at)
  \/ \E fail_at \in 0..1 : ui_send_saturation(fail_at)
  \/ \E fail_at \in 0..1 : ui_send_hue(fail_at)
  \/ \E fail_at \in 0..1 : ui_send_custom_rgb(fail_at)
  \/ \E fail_at \in 0..1 : ui_send_tipsy_sync(fail_at)
  \/ \E fail_at \in 0..1 : ui_apply_bound_tipsy(fail_at)
  \/ \E name \in MacroNames, fail_at \in 0..MaxSteps : ui_play_macro(name, fail_at)
  \/ \E fav \in Favorites, fail_at \in 0..2 : ui_play_favorite(fav, fail_at)
  \/ \E fail_at \in 0..1 : ui_toggle_bind_tipsy(fail_at)
  \/ \E val \in BrightnessPositions, q \in BOOLEAN : ui_on_brightness_change(val, q)
  \/ \E val \in SpeedPositions : ui_on_speed_change(val)
  \/ \E val \in IntensityPositions : ui_on_intensity_change(val)
  \/ \E val \in SaturationPositions : ui_on_saturation_change(val)
  \/ \E val \in HuePositions : ui_on_hue_change(val)
  \/ \E val \in TipsyPositions : ui_on_tipsy_sync_change(val)
  \/ \E rgb \in PickedColours : ui_pick_custom_color(rgb)
  \/ ui_clear_graph
  \/ ui_toggle_macro_record
  \/ ui_clear_recording
  \/ \E name \in MacroNames : ui_save_macro(name)
  \/ \E t \in Threads : read_serial_check(t)
  \/ \E t \in Threads, raw \in ReceivedLines : read_serial_body(t, raw)
  \/ \E t \in Threads : read_serial_raise(t)

Spec == Init /\ [][Next]_vars


\* The steps that touch the channel deques, from deques one short of full.
NextFull ==
  \/ \E open_ok \in BOOLEAN : ui_connect_port(open_ok)
  \/ \E cmd \in CommandInputs, fail_at \in 0..1 : ui_send_command(cmd, fail_at)
  \/ \E fail_at \in 0..1 : ui_send_brightness(fail_at)
  \/ \E val \in BrightnessPositions, q \in BOOLEAN : ui_on_brightness_change(val, q)
  \/ ui_clear_graph
  \/ \E t \in Threads : read_serial_check(t)
  \/ \E t \in Threads, raw \in ReceivedLines : read_serial_body(t, raw)
  \/ \E t \in Threads : read_serial_raise(t)

SpecFull == InitFull /\ [][NextFull]_vars


\* The steps of the tipsy binding: the reader receiving measured speeds, the
\* event loop running what the reader queued, the tipsy slider and checkbox.
NextBind ==
  \/ \E open_ok \in BOOLEAN : ui_connect_port(open_ok)
  \/ \E t \in Threads : read_serial_check(t)
  \/ \E t \in Threads, raw \in SpeedLines : read_serial_body(t, raw)
  \/ \E t \in Threads : read_serial_raise(t)
  \/ \E fail_at \in 0..1 : ui_apply_bound_tipsy(fail_at)
  \/ \E fail_at \in 0..1 : ui_send_tipsy_sync(fail_at)
  \/ \E val \in TipsyEnds : ui_on_tipsy_sync_change(val)
  \/ \E fail_at \in 0..1 : ui_toggle_bind_tipsy(fail_at)

SpecBind == InitBind /\ [][NextBind]_vars


\* The steps of macro recording and playback, with the tipsy binding on and the
\* device reporting its speed.
NextMacro ==
  \/ \E fail_at \in 0..1 : ui_send_command(<<"R">>, fail_at)
  \/ \E fail_at \in 0..1 : ui_send_brightness(fail_at)
  \/ \E fail_at \in 0..1 : ui_send_custom_rgb(fail_at)
  \/ \E fail_at \in 0..1 : ui_apply_bound_tipsy(fail_at)
  \/ \E name \in MacroNames, fail_at \in 0..2 : ui_play_macro(name, fail_at)
  \/ ui_toggle_macro_record
  \/ ui_clear_recording
  \/ \E name \in MacroNames : ui_save_macro(name)
  \/ \E t \in Threads : read_serial_check(t)
  \/ \E t \in Threads : read_serial_body(t, JsonLine(<<<<"S", 100>>>>))

SpecMacro == InitMacro /\ [][NextMacro]_vars

\* The steps around the oscilloscope: its timer and checkbox, and what gives it
\* brightness samples to draw.
NextGraph ==
  \/ ui_toggle_auto_update
  \/ ui_schedule_graph_update
  \/ \E fail_at \in 0..1 : ui_send_brightness(fail_at)
  \/ \E val \in BrightnessPositions, q \in BOOLEAN : ui_on_brightness_change(val, q)
  \/ ui_clear_graph

SpecGraph == Init /\ [][NextGraph]_vars

\* The steps around the colour and effect buttons.
NextTrack ==
  \/ \E open_ok \in BOOLEAN : ui_connect_port(open_ok)
  \/ \E button \in TrackedButtons, fail_at \in 0..1 :
       ui_send_command_track(button, fail_at)
  \/ \E cmd \in CommandInputs, fail_at \in 0..1 : ui_send_command(cmd, fail_at)
  \/ \E t \in Threads : read_serial_check(t)
  \/ \E t \in Threads : read_serial_raise(t)

SpecTrack == Init /\ [][NextTrack]_vars

\* Runs without a step bound, for what must happen eventually: the user
\* connecting and disconnecting, a write failing, and each read_serial thread
\* being scheduled again and again while it is in its loop. The lines received
\* are text, so that no deque grows.
run_connect_port(open_ok) ==
  /\ is_connected \/ open_handles < MaxHandles
  /\ connect_port(open_ok)
  /\ UNCHANGED steps

run_send_command(fail_at) ==
  /\ is_connected
  /\ call_send_command(<<"R">>, fail_at)
  /\ UNCHANGED steps

run_reader(t) ==
  /\ \/ while_is_connected(t)
     \/ \E raw \in {TextHello, TextBlank} : loop_body(t, raw)
     \/ loop_break(t)
  /\ UNCHANGED steps

NextLive ==
  \/ \E open_ok \in BOOLEAN : run_connect_port(open_ok)
  \/ \E fail_at \in 0..1 : run_send_command(fail_at)
  \/ \E t \in Threads : run_reader(t)

\* The operating system schedules every thread that can run.
SpecLive ==
  /\ Init
  /\ [][NextLive]_vars
  /\ \A t \in Threads : WF_vars(run_reader(t))


\* Runs without a step bound in which the device reports measured speeds: the
\* read_serial threads, the event loop running the callbacks root.after queued,
\* and the user connecting, disconnecting and clicking the bind checkbox.
run_reader_speed(t) ==
  /\ \/ while_is_connected(t)
     \/ /\ Len(pwm_timestamps) < MaxFrames
        /\ \E s \in LiveSpeeds : loop_body(t, JsonLine(<<<<"S", s>>>>))
     \/ loop_break(t)
  /\ UNCHANGED steps

run_mainloop(fail_at) == run_after_callback(fail_at) /\ UNCHANGED steps

run_toggle_bind_tipsy == toggle_bind_tipsy(0) /\ UNCHANGED steps

NextBindLive ==
  \/ run_connect_port(TRUE)
  \/ \E t \in Threads : run_reader_speed(t)
  \/ \E fail_at \in 0..1 : run_mainloop(fail_at)
  \/ run_toggle_bind_tipsy

\* mainloop runs a queued callback as soon as it is idle.
SpecBindLive ==
  /\ InitBind
  /\ [][NextBindLive]_vars
  /\ WF_vars(\E fail_at \in 0..1 : run_mainloop(fail_at))


\* A call of map_range on the drawn arguments.
call_map_range ==
  /\ ~mr.done
  /\ mr' = [mr EXCEPT !.done = TRUE,
                      !.ret = map_range(mr.x, mr.in_min, mr.in_max, mr.out_min,
                                        mr.out_max)]
  /\ UNCHANGED <<connVars, macroVars, brightness_val, sliderVars, tipsy_sync_value,
                 bind_tipsy_var, after_queue, bufVars, tx, logged, steps,
                 trackVars, graphVars>>

NextMap == call_map_range

SpecMap == InitMap /\ [][NextMap]_vars


\* ------------------------------------------------------------------ claims

Min(a, b) == IF a < b THEN a ELSE b

\* The last n items of s.
LastN(s, n) == SubSeq(s, Len(s) - n + 1, Len(s))

\* C1: after N values were appended to a channel buffer with no clear in
\* between, the buffer holds exactly the last min(N, 200) of them in arrival
\* order (so an append to a full buffer drops the oldest value and leaves the
\* new value last).
C1_BufferHoldsLastArrivals ==
  \A k \in Keys :
    telemetry_channels[k] =
      LastN(arrivals[k], Min(Len(arrivals[k]), max_samples))

\* C1's case: a 201st value arrived in 'BR' and the buffer dropped its oldest.
C1_Witness ==
  /\ Len(arrivals["BR"]) = max_samples + 1
  /\ Len(telemetry_channels["BR"]) = max_samples
  /\ telemetry_channels["BR"][1] = arrivals["BR"][2]
  /\ telemetry_channels["BR"][max_samples] = arrivals["BR"][max_samples + 1]

\* C2: in every reachable state each of the ten sample sequences and the
\* timestamp sequence has at most 200 items.
C2_LengthsBounded ==
  /\ \A k \in Keys : Len(telemetry_channels[k]) <= max_samples
  /\ Len(pwm_timestamps) <= max_samples

\* C2's case: a channel other than 'BR' and the timestamps were full when one
\* more frame arrived.
C2_Witness ==
  /\ Len(arrivals["M"]) > max_samples
  /\ Len(telemetry_channels["M"]) = max_samples
  /\ Len(pwm_timestamps) = max_samples

\* ---- send_command

\* C3: when connected, send_command makes one write; for a one-character
\* command it carries the character and one newline, for a longer command it
\* carries the command unchanged.
C3_SendCommandBytes ==
  [][\A cmd \in CommandInputs, fail_at \in 0..1 :
       (is_connected /\ ui_send_command(cmd, fail_at)) =>
         /\ Len(tx') = 1
         /\ tx'[1].data = IF Len(cmd) = 1 THEN <<cmd[1], NL>> ELSE cmd]_vars

C3_Witness ==
  /\ is_connected
  /\ tx = <<[data |-> <<"R", NL>>, ok |-> TRUE]>>

\* ---- numeric sends

\* text is the decimal notation of n, without sign for n >= 0 and without
\* leading zeros.
IsDecimal(text, n) ==
  LET digits == IF text # <<>> /\ text[1] = "-" THEN Tail(text) ELSE text
  IN  /\ AllDigits(digits)
      /\ Len(digits) = 1 \/ digits[1] # "0"
      /\ (text[1] = "-") = (n < 0)
      /\ DigitsVal(digits) = Abs(n)

\* data is "~", the type character, the decimal notation of n and a newline.
IsDirective(data, type, n) ==
  /\ Len(data) >= 4
  /\ data[1] = "~"
  /\ data[2] = type
  /\ data[Len(data)] = NL
  /\ IsDecimal(SubSeq(data, 3, Len(data) - 1), n)

\* data is "G", three decimal numbers separated by commas, and a newline.
IsRgbCommand(data, rgb) ==
  /\ Len(data) >= 7
  /\ data[1] = "G"
  /\ data[Len(data)] = NL
  /\ LET mid == SubSeq(data, 2, Len(data) - 1)
         c1 == Find(mid, ",", 1)
         c2 == Find(mid, ",", c1 + 1)
     IN  /\ c1 > 0
         /\ c2 > 0
         /\ Find(mid, ",", c2 + 1) = 0
         /\ IsDecimal(SubSeq(mid, 1, c1 - 1), rgb[1])
         /\ IsDecimal(SubSeq(mid, c1 + 1, c2 - 1), rgb[2])
         /\ IsDecimal(SubSeq(mid, c2 + 1, Len(mid)), rgb[3])

\* The tipsy value send_tipsy_sync puts on the wire: the scalar, kept in 32..255.
TipsyOnWire == IF tipsy_sync_value < 32 THEN 32
               ELSE IF tipsy_sync_value > 255 THEN 255 ELSE tipsy_sync_value

\* C4: when connected, each numeric send makes one write of "~", its type
\* character, the decimal value of its scalar and a newline (brightness 128
\* gives "~B128\n"), and send_custom_rgb one write of "G<r>,<g>,<b>\n"
\* (colour (255,128,64) gives "G255,128,64\n").
C4_NumericDirectiveBytes ==
  [][\A fail_at \in 0..1 :
       is_connected =>
         /\ ui_send_brightness(fail_at) =>
              /\ Len(tx') = 1
              /\ IsDirective(tx'[1].data, "B", brightness_val)
              /\ brightness_val = 128 =>
                   tx'[1].data = <<"~", "B", "1", "2", "8", NL>>
         /\ ui_send_speed(fail_at) =>
              Len(tx') = 1 /\ IsDirective(tx'[1].data, "V", speed_val)
         /\ ui_send_intensity(fail_at) =>
              Len(tx') = 1 /\ IsDirective(tx'[1].data, "I", intensity_val)
         /\ ui_send_saturation(fail_at) =>
              Len(tx') = 1 /\ IsDirective(tx'[1].data, "U", saturation_val)
         /\ ui_send_hue(fail_at) =>
              Len(tx') = 1 /\ IsDirective(tx'[1].data, "H", hue_rotation_val)
         /\ ui_send_tipsy_sync(fail_at) =>
              Len(tx') = 1 /\ IsDirective(tx'[1].data, "T", TipsyOnWire)
         /\ ui_send_custom_rgb(fail_at) =>
              /\ Len(tx') = 1
              /\ IsRgbCommand(tx'[1].data, custom_rgb)
              /\ custom_rgb = <<255, 128, 64>> =>
                   tx'[1].data = <<"G", "2", "5", "5", ",", "1", "2", "8", ",",
                                   "6", "4", NL>>]_vars

C4_Witness ==
  /\ brightness_val = 128
  /\ tx = <<[data |-> <<"~", "B", "1", "2", "8", NL>>, ok |-> TRUE]>>

\* ---- brightness directives and the "BR" buffer

\* Values of the brightness directives a played macro hands to send_command:
\* inside the range send_command charts, and outside it.
DirectiveValues == {200, 300}

\* The step wrote exactly one directive, and the write went through.
Sent(data) == tx' = <<[data |-> data, ok |-> TRUE]>>

Frames == {FrameBoth, FrameAll, FrameMode}

Has(pairs, key) == \E i \in 1..Len(pairs) : pairs[i][1] = key

ValueOf(pairs, key) == pairs[CHOOSE i \in 1..Len(pairs) : pairs[i][1] = key][2]

\* The scalar after a frame: the frame's value for key, or the scalar as it was.
After(pairs, key, old) == IF Has(pairs, key) THEN ValueOf(pairs, key) ELSE old

\* C6: ingesting one structured frame appends each recognised key's value
\* once to that key's buffer, sets the scalars of BR, S, I, SAT and H to the
\* received values, and leaves every absent key's buffer and scalar unchanged.
C6_FrameIngest ==
  [][\A t \in Threads, pairs \in Frames :
       read_serial_body(t, JsonLine(pairs)) =>
         /\ \A k \in Keys :
              /\ arrivals'[k] = IF Has(pairs, k)
                                THEN Append(arrivals[k], ValueOf(pairs, k))
                                ELSE arrivals[k]
              /\ telemetry_channels'[k] =
                   IF Has(pairs, k)
                   THEN DequeAppend(telemetry_channels[k], ValueOf(pairs, k))
                   ELSE telemetry_channels[k]
         /\ brightness_val' = After(pairs, "BR", brightness_val)
         /\ speed_val' = After(pairs, "S", speed_val)
         /\ intensity_val' = After(pairs, "I", intensity_val)
         /\ saturation_val' = After(pairs, "SAT", saturation_val)
         /\ hue_rotation_val' = After(pairs, "H", hue_rotation_val)]_vars

\* {"BR":10,"S":5} was ingested by a program that had received nothing.
C6_Witness ==
  /\ telemetry_channels["BR"] = <<10>>
  /\ telemetry_channels["S"] = <<5>>
  /\ \A k \in Keys \ {"BR", "S"} : telemetry_channels[k] = <<>>
  /\ brightness_val = 10
  /\ speed_val = 5
  /\ intensity_val = 128
  /\ saturation_val = 255
  /\ hue_rotation_val = 1

\* ---- read_serial: other lines

\* The received lines that are no structured record.
TextLines == {TextHello, TextBadJson, TextCutJson, TextBlank}

\* The step left every channel buffer, the timestamps and every scalar alone.
NothingIngested ==
  UNCHANGED <<telemetry_channels, pwm_timestamps, arrivals, brightness_val,
              speed_val, intensity_val, saturation_val, hue_rotation_val>>

\* C7 as stated: every received line that is no structured record is forwarded
\* to the history log as a received text message, changes no buffer, timestamp
\* or scalar, and leaves the reader in its loop.
C7_EveryTextLineLogged ==
  [][\A t \in Threads, raw \in TextLines :
       read_serial_body(t, raw) =>
         /\ Len(logged') = 1
         /\ NothingIngested
         /\ reader_pc'[t] = "check"]_vars

\* C7 (amended): a received line that is no structured record and is not blank
\* is forwarded, stripped, to the history log as a received text message; a
\* blank one is dropped; either way no buffer, timestamp or scalar changes and
\* the reader goes back to the test of its loop.
C7_TextLineLoggedUnlessBlank ==
  [][\A t \in Threads, raw \in TextLines :
       read_serial_body(t, raw) =>
         /\ logged' = IF \A i \in 1..Len(raw) : IsSpace(raw[i])
                      THEN <<>>
                      ELSE <<Entry(<<"<- Received: ">> \o strip(raw))>>
         /\ NothingIngested
         /\ reader_pc'[t] = "check"]_vars

\* The line {BR:10} was received and logged; nothing was ingested.
C7_Witness ==
  /\ logged = <<Entry(<<"<- Received: ", "{", "B", "R", ":", "1", "0", "}">>)>>
  /\ reader_pc[1] = "check"
  /\ pwm_timestamps = <<>>
  /\ brightness_val = 255

\* ---- macro recording

\* The step handed exactly cmd to the recorder.
Recorded(cmd) == recorded_commands' = Append(recorded_commands, cmd)

\* C8: while recording, every command that passes through the Command Channel
\* (send_command, the numeric sends, send_custom_rgb) is put at the end of
\* recorded_commands, so the sequence is in the order of issue; while not
\* recording, no step appends to recorded_commands.
C8_RecordingFollowsSends ==
  [][/\ (macro_recording /\ is_connected) =>
          \A fail_at \in 0..1 :
            /\ \A cmd \in CommandInputs :
                 ui_send_command(cmd, fail_at) => Recorded(cmd)
            /\ ui_send_brightness(fail_at) =>
                 Recorded(<<"~", "B">> \o py_str(brightness_val) \o <<NL>>)
            /\ ui_send_speed(fail_at) =>
                 Recorded(<<"~", "V">> \o py_str(speed_val) \o <<NL>>)
            /\ ui_send_intensity(fail_at) =>
                 Recorded(<<"~", "I">> \o py_str(intensity_val) \o <<NL>>)
            /\ ui_send_saturation(fail_at) =>
                 Recorded(<<"~", "U">> \o py_str(saturation_val) \o <<NL>>)
            /\ ui_send_hue(fail_at) =>
                 Recorded(<<"~", "H">> \o py_str(hue_rotation_val) \o <<NL>>)
            /\ ui_send_tipsy_sync(fail_at) =>
                 Recorded(<<"~", "T">> \o py_str(TipsyOnWire) \o <<NL>>)
            /\ ui_send_custom_rgb(fail_at) =>
                 Recorded(<<"G">> \o py_str(custom_rgb[1]) \o <<",">>
                          \o py_str(custom_rgb[2]) \o <<",">>
                          \o py_str(custom_rgb[3]) \o <<NL>>)
     /\ ~macro_recording =>
          \/ recorded_commands' = recorded_commands
          \/ recorded_commands' = <<>>]_vars

\* Two commands were sent while recording and are recorded in that order.
C8_Witness ==
  /\ macro_recording
  /\ recorded_commands = <<<<"R">>, <<"~", "B", "2", "5", "5", NL>>>>
  /\ tx = <<[data |-> <<"~", "B", "2", "5", "5", NL>>, ok |-> TRUE]>>

\* ---- map_range

\* C9: map_range returns out_min + (x - in_min) / (in_max - in_min) *
\* (out_max - out_min) when in_min differs from in_max, which makes
\* map_range(1, 1, 200, 255, 50) 255 and map_range(200, 1, 200, 255, 50) 50,
\* and out_min for every x when in_min equals in_max.
C9_MapRange ==
  mr.done =>
    /\ mr.ret.den > 0
    /\ mr.in_min # mr.in_max =>
         mr.ret.num * (mr.in_max - mr.in_min) =
           mr.ret.den * (mr.out_min * (mr.in_max - mr.in_min)
                         + (mr.x - mr.in_min) * (mr.out_max - mr.out_min))
    /\ mr.in_min = mr.in_max => mr.ret = [num |-> mr.out_min, den |-> 1]
    /\ (mr.in_min = 1 /\ mr.in_max = 200 /\ mr.out_min = 255 /\ mr.out_max = 50) =>
         /\ mr.x = 1 => mr.ret = [num |-> 255, den |-> 1]
         /\ mr.x = 200 => mr.ret = [num |-> 50, den |-> 1]

\* map_range(200, 1, 200, 255, 50) was called and returned 50.
C9_Witness ==
  /\ mr.done
  /\ mr.x = 200 /\ mr.in_min = 1 /\ mr.in_max = 200
  /\ mr.out_min = 255 /\ mr.out_max = 50
  /\ mr.ret = [num |-> 50, den |-> 1]

\* ---- write failures

\* C10: a write that fails is the last write of its step and leaves the
\* program disconnected; a disconnected program writes nothing; and only
\* connect_port takes the program from disconnected to connected.
C10_WriteFailureDisconnects ==
  [][/\ \A i \in 1..Len(tx') :
          ~tx'[i].ok => (i = Len(tx') /\ ~is_connected')
     /\ ~is_connected => tx' = <<>>
     /\ (~is_connected /\ is_connected') => ui_connect_port(TRUE)]_vars

\* A write failed: the program is disconnected, the write was not repeated.
C10_Witness ==
  /\ ~is_connected
  /\ Len(tx) = 1
  /\ ~tx[1].ok
  /\ serial_port = "open"

\* ---- sends while disconnected

\* C11: while the program is disconnected no send operation (send_command,
\* the numeric sends, send_custom_rgb, send_tipsy_sync, play_macro,
\* play_favorite) makes a write.
C11_NoWriteWhileDisconnected ==
  [][~is_connected =>
       \A fail_at \in 0..2 :
         ( \/ \E cmd \in CommandInputs : ui_send_command(cmd, fail_at)
           \/ ui_send_brightness(fail_at)
           \/ ui_send_speed(fail_at)
           \/ ui_send_intensity(fail_at)
           \/ ui_send_saturation(fail_at)
           \/ ui_send_hue(fail_at)
           \/ ui_send_custom_rgb(fail_at)
           \/ ui_send_tipsy_sync(fail_at)
           \/ \E name \in MacroNames : ui_play_macro(name, fail_at)
           \/ \E fav \in Favorites : ui_play_favorite(fav, fail_at) )
         => (tx' = <<>> /\ ~is_connected')]_vars

\* One step was taken by a program that never opened a port: send_brightness,
\* which charted its value and wrote nothing.
C11_Witness ==
  /\ steps = 1
  /\ ~is_connected
  /\ serial_port = "None"
  /\ arrivals["BR"] = <<255>>
  /\ brightness_val = 255
  /\ tx = <<>>

\* ---- tipsy directives

\* data is a tipsy directive: "~T", something, newline.
IsTipsyDirective(data) == startswith(data, <<"~", "T">>) /\ endswith(data, <<NL>>)

\* C12: every "~T<v>\n" written, from the slider or from a measured speed,
\* carries an integer v with 32 <= v <= 255, whatever speed was measured.
C12_TipsyDirectiveInRange ==
  \A i \in 1..Len(tx) :
    IsTipsyDirective(tx[i].data) =>
      LET v == py_int(SubSeq(tx[i].data, 3, Len(tx[i].data) - 1))
      IN  v.ok /\ 32 <= v.val /\ v.val <= 255

\* A measured speed of 1000 came in with the binding on; "~T32\n" went out.
C12_Witness ==
  /\ speed_val = 1000
  /\ tipsy_sync_value = 32
  /\ tx = <<[data |-> <<"~", "T", "3", "2", NL>>, ok |-> TRUE]>>

\* ---- ranges of the numeric directives

\* The documented range of each numeric directive.
DirectiveRange ==
  [B |-> [lo |-> 0, hi |-> 255], V |-> [lo |-> 1, hi |-> 200],
   I |-> [lo |-> 0, hi |-> 255], U |-> [lo |-> 0, hi |-> 255],
   H |-> [lo |-> 1, hi |-> 5]]

\* data is no numeric directive, or one whose value is inside its range.
InDocumentedRange(data) ==
  \A type \in DOMAIN DirectiveRange :
    LET v == py_int(SubSeq(data, 3, Len(data) - 1))
    IN  (Len(data) >= 4 /\ data[1] = "~" /\ data[2] = type
         /\ data[Len(data)] = NL /\ v.ok)
        => (DirectiveRange[type].lo <= v.val /\ v.val <= DirectiveRange[type].hi)

\* What the speed preset button "Molasses" hands to send_command.
MolassesPreset == <<"~", "V", "2", "5", "0", NL>>

\* C13 as stated: every numeric directive that a slider release or a speed
\* preset button writes carries a value inside its documented range.
C13_DirectivesInRange ==
  [][\A fail_at \in 0..1 :
       ( \/ ui_send_brightness(fail_at)
         \/ ui_send_speed(fail_at)
         \/ ui_send_intensity(fail_at)
         \/ ui_send_saturation(fail_at)
         \/ ui_send_hue(fail_at)
         \/ ui_send_command(MolassesPreset, fail_at) )
       => \A i \in 1..Len(tx') : InDocumentedRange(tx'[i].data)]_vars

\* ---- read_serial threads

\* The read_serial threads that have not left their loop.
Running == {t \in Threads : reader_pc[t] # "none"}

\* C14 as stated: at most one read_serial thread is running at any time.
C14_OneIngestTask == Cardinality(Running) <= 1

\* C15 as stated: once the connection is marked closed, every read_serial
\* thread that is in its loop eventually leaves it.
C15_ReaderExitsOnceClosed ==
  \A t \in Threads :
    (~is_connected /\ reader_pc[t] # "none") ~> (reader_pc[t] = "none")

\* C16 as stated: a pass of the read_serial loop calls no UI method itself.
\* add_history writes to the history_text widget, and logged' holds the
\* add_history calls made during the step, here by the read_serial thread.
C16_ReaderCallsNoUiMethod ==
  [][\A t \in Threads, raw \in ReceivedLines :
       read_serial_body(t, raw) => logged' = <<>>]_vars

\* ---- measured speed bound to tipsy sync

\* v clamped to 32..255.
Clamped(v) == IF v > 255 THEN 255 ELSE IF v < 32 THEN 32 ELSE v

\* The value C17 names for a measured speed s.
C17_Value(s) == Clamped(Trunc(map_range(s, 1, 200, 255, 50)))

\* The tipsy values whose callback is waiting in the event queue.
Pending == {after_queue[i] : i \in 1..Len(after_queue)}

\* The UI thread has just set tipsy sync to v and written "~T<v>\n".
Applied(v) ==
  /\ tipsy_sync_value = v
  /\ tx = <<[data |-> <<"~", "T">> \o py_str(v) \o <<NL>>, ok |-> TRUE]>>

\* C17: a frame with S = s ingested while the binding is on queues the
\* callback for s, and while the connection stays open the UI thread
\* eventually sets tipsy sync to v and writes "~T<v>\n", v being
\* map_range(s,1,200,255,50) truncated and clamped to 32..255; a frame
\* ingested while the binding is off queues nothing and writes nothing.
C17_BoundSpeedReachesTipsy ==
  /\ [][\A t \in Threads, s \in LiveSpeeds :
          (reader_pc'[t] # reader_pc[t] /\ speed_val' = s
             /\ loop_body(t, JsonLine(<<<<"S", s>>>>))) =>
            /\ tx' = <<>>
            /\ tipsy_sync_value' = tipsy_sync_value
            /\ IF bind_tipsy_var
               THEN /\ Len(after_queue') = Len(after_queue) + 1
                    /\ SubSeq(after_queue', 1, Len(after_queue)) = after_queue
                    /\ Clamped(after_queue'[Len(after_queue')]) = C17_Value(s)
               ELSE after_queue' = after_queue]_vars
  /\ \A s \in LiveSpeeds :
       (\E q \in Pending : Clamped(q) = C17_Value(s))
         ~> (Applied(C17_Value(s)) \/ ~is_connected)

\* Speed 100 came in with the binding on and the callback has run: tipsy sync
\* is 153 and "~T153\n" went out.
C17_Witness ==
  /\ bind_tipsy_var
  /\ is_connected
  /\ speed_val = 100
  /\ after_queue = <<>>
  /\ Applied(153)

\* ---- the shared timestamps

\* C18: a received frame appends one entry to pwm_timestamps (the oldest entry
\* leaving when the deque is full), whether the frame carries one key, two or
\* all ten.
C18_OneTimestampPerFrame ==
  [][\A t \in Threads, pairs \in Frames :
       read_serial_body(t, JsonLine(pairs)) =>
         pwm_timestamps' =
           Append(IF Len(pwm_timestamps) < max_samples THEN pwm_timestamps
                  ELSE Tail(pwm_timestamps), Now)]_vars

\* The frame with all ten keys has been received, and one timestamp is kept.
C18_Witness ==
  /\ \A k \in Keys : Len(arrivals[k]) = 1
  /\ arrivals["TS"] = <<14>>
  /\ pwm_timestamps = <<Now>>

\* ---- ranges of the scalars

\* C19 as stated: in every reachable state brightness, intensity and
\* saturation are in 0..255, speed in 1..200, hue rotation speed in 1..5 and
\* tipsy sync in 32..255.
C19_ScalarsInRange ==
  /\ brightness_val \in 0..255
  /\ intensity_val \in 0..255
  /\ saturation_val \in 0..255
  /\ speed_val \in 1..200
  /\ hue_rotation_val \in 1..5
  /\ tipsy_sync_value \in 32..255

\* ---- what is recorded

\* C20 as stated: every command a step appends to recorded_commands is one the
\* step wrote to the port with success (a one-character command with its
\* newline added), so that no command whose write failed is recorded.
C20_RecordedWasTransmitted ==
  [][\A i \in (Len(recorded_commands) + 1)..Len(recorded_commands') :
       \E j \in 1..Len(tx') :
         /\ tx'[j].ok
         /\ tx'[j].data = normalise(recorded_commands'[i])]_vars

\* ---- macros

\* The data of the writes a step made, in order.
Written(writes) == [i \in 1..Len(writes) |-> writes[i].data]

\* What send_command, the numeric sends and send_custom_rgb wrote for each
\* command of a macro when it was recorded: a one-character command with its
\* newline, every other command as it is.
OriginalBytes(commands) == [i \in 1..Len(commands) |-> normalise(commands[i])]

\* C21 as stated: playing a saved macro while connected, every write
\* succeeding, writes the bytes that were written for its commands when they
\* were recorded, in order, and nothing else.
C21_PlaybackWritesRecordedBytes ==
  [][\A name \in MacroNames :
       (is_connected /\ name \in DOMAIN macros /\ ui_play_macro(name, 0)) =>
         /\ \A i \in 1..Len(tx') : tx'[i].ok
         /\ Written(tx') = OriginalBytes(macros[name])]_vars

\* ---- the reader and the connection flag

\* C22 as stated: whenever is_connected holds, a read_serial thread is in its
\* loop.
C22_ConnectedHasReader == is_connected => Running # {}

\* ---- brightness sends and the chart

\* C23 as stated: a send_brightness whose directive is not written with
\* success, the connection being closed or the write failing, leaves the 'BR'
\* deque and pwm_timestamps as they were.
C23_UnsentBrightnessNotCharted ==
  [][\A fail_at \in 0..1 :
       (ui_send_brightness(fail_at) /\ ~\E i \in 1..Len(tx') : tx'[i].ok) =>
         /\ telemetry_channels'["BR"] = telemetry_channels["BR"]
         /\ pwm_timestamps' = pwm_timestamps]_vars

\* ---- the binding switched off with a callback waiting

\* C24 as stated: when the event loop runs a queued apply_bound_tipsy after
\* the user has switched the binding off, nothing is written and
\* tipsy_sync_value keeps its value.
C24_NoTipsyAfterBindOff ==
  [][\A fail_at \in 0..1 :
       (~bind_tipsy_var /\ ui_apply_bound_tipsy(fail_at)) =>
         /\ tx' = <<>>
         /\ tipsy_sync_value' = tipsy_sync_value]_vars

\* ---- telemetry while recording

\* C25 as stated: neither a pass of the read_serial loop nor the callback it
\* queued changes recorded_commands.
C25_TelemetryNotRecorded ==
  [][(\/ \E t \in Threads : read_serial_body(t, JsonLine(<<<<"S", 100>>>>))
      \/ \E fail_at \in 0..1 : ui_apply_bound_tipsy(fail_at)) =>
       recorded_commands' = recorded_commands]_vars

\* ---- serial handles

\* C26 as stated: at most one serial handle is open, every handle opened
\* earlier having been closed before connect_port opens the next.
C26_OneHandleOpen == open_handles <= 1

\* ---- starting and stopping a recording

\* C28: toggle_macro_record starting a recording leaves recorded_commands
\* empty; stopping one leaves recorded_commands as it was, and a save_macro
\* of a non-empty recording stores that sequence under the name.
C28_StartEmptiesStopKeeps ==
  [][/\ ui_toggle_macro_record =>
          IF macro_recording
          THEN ~macro_recording' /\ recorded_commands' = recorded_commands
          ELSE macro_recording' /\ recorded_commands' = <<>>
     /\ \A name \in MacroNames :
          (ui_save_macro(name) /\ recorded_commands # <<>>) =>
            /\ name \in DOMAIN macros'
            /\ macros'[name] = recorded_commands
            /\ recorded_commands' = recorded_commands]_vars

\* A brightness was sent and recorded, and the recording has just been
\* stopped with the command still in it.
C28_Witness ==
  /\ ~macro_recording
  /\ recorded_commands = <<<<"~", "B", "2", "5", "5", NL>>>>
  /\ logged = <<Entry(<<"[MACRO RECORD STOPPED]">>)>>

\* ---- saved macros

\* C29: a step that is not a save_macro (sending and recording further
\* commands, clearing the recording, starting or stopping a recording, playing
\* a macro while recording, telemetry coming in) leaves every sequence saved
\* in macros as it was.
C29_SavedMacroIsSnapshot ==
  [][(\A name \in MacroNames : ~ui_save_macro(name)) => macros' = macros]_vars

\* "R" was recorded and saved as m1; a brightness recorded afterwards is in
\* recorded_commands and not in m1.
C29_Witness ==
  /\ macro_recording
  /\ "m1" \in DOMAIN macros
  /\ macros["m1"] = <<<<"R">>>>
  /\ recorded_commands = <<<<"R">>, <<"~", "B", "2", "5", "5", NL>>>>

\* ---- the graph timer

\* C27 as stated: at most one schedule_graph_update callback is pending.
C27_OneGraphTimer == graph_timers <= 1

\* ---- the tracked effect and colour

\* C30 as stated: a send_command_track whose command is not written with
\* success, the connection being closed or the write failing, leaves
\* current_effect and current_color as they were.
C30_TrackOnlyWhenTransmitted ==
  [][\A button \in TrackedButtons, fail_at \in 0..1 :
       (ui_send_command_track(button, fail_at) /\ ~\E i \in 1..Len(tx') : tx'[i].ok) =>
         /\ current_effect' = current_effect
         /\ current_color' = current_color]_vars


====
